---- MODULE Spec2Model ----
(***************************************************************************)
(* GeneticBPE: the motif registry (MotifBank), the span geometry           *)
(* (MotifSpanManager) and the tokenizer (GeneticBPETokenizer).             *)
(*                                                                         *)
(* A string is a sequence of one-character strings; positions are 0-based  *)
(* as in the source, so the slice s[a:b] is SubSeq(s, a + 1, b).           *)
(* The tokenizer calls get_motif_spans, is_pair_inside_motif and           *)
(* is_pair_crossing_motif_boundary on its motif bank; the only definitions *)
(* of these names are those of MotifSpanManager, run over the bank's       *)
(* motifs_df, and the calls are modelled as reaching them.                 *)
(* The two weights are kept in halves (2.5 is 5, 10.0 is 20) and a score   *)
(* is twice the source's score, which keeps every comparison of scores.    *)
(***************************************************************************)
EXTENDS Integers, Sequences, FiniteSets, TLC

VARIABLES
    registry,          \* MotifBank.motifs_df: the rows, in index order
    vocab_size,        \* GeneticBPETokenizer.vocab_size
    min_freq,          \* GeneticBPETokenizer.min_freq
    motif_weight,      \* GeneticBPETokenizer.motif_weight, in halves
    penalty_weight,    \* GeneticBPETokenizer.penalty_weight, in halves
    vocab,             \* GeneticBPETokenizer.vocab
    merges,            \* GeneticBPETokenizer.merges, in insertion order
    token_frequencies, \* GeneticBPETokenizer.token_frequencies
    pc,                \* where train is: "idle", "loop", "exit", "done"
    sequences,         \* train's argument
    corpus,            \* train's local corpus
    current_vocab,     \* train's local current_vocab
    new_merges,        \* train's local merges, in insertion order
    iter,              \* what the last pass of train's loop did
    spanq,             \* the last get_motif_spans call and its result
    clsq,              \* the last pair classification and its results
    tokq,              \* the last tokenize call and its result
    document,          \* the file save writes and load reads
    saveq,             \* the last save call: the state it was given
    loadq,             \* the last load call: the state it found, its outcome
    replayq            \* the last _tokenize_subsequence call, pass by pass

vars == <<registry, vocab_size, min_freq, motif_weight, penalty_weight, vocab,
          merges, token_frequencies, pc, sequences, corpus, current_vocab,
          new_merges, iter, spanq, clsq, tokq, document, saveq, loadq,
          replayq>>

tokenizer_vars == <<vocab_size, min_freq, motif_weight, penalty_weight, vocab,
                    merges, token_frequencies>>
train_vars == <<pc, sequences, corpus, current_vocab, new_merges, iter>>
persist_vars == <<document, saveq, loadq>>

(***************************************************************************)
(* Bounds of the model.                                                    *)
(***************************************************************************)
\* the longest sequence over Alphabet given to train, tokenize or a query
MaxSeqLen == 4
\* the number of add_motif calls after the bank is constructed
MaxAdded == 1

Alphabet == {"A", "U"}

Min(S) == CHOOSE x \in S : \A y \in S : x <= y
Max(S) == CHOOSE x \in S : \A y \in S : x >= y

StringsOfLen(n) == [1..n -> Alphabet]
Strings == UNION {StringsOfLen(n) : n \in 0..MaxSeqLen}

\* the corpus of the specification's scenario, and a longer sequence
ScenarioSeqs ==
    { <<"U", "G", "U", "G", "A", "U", "G", "U", "G", "A">>,
      <<"A", "U", "A", "A", "U", "A", "U", "A">> }

SeqPool == Strings \cup ScenarioSeqs

\* what add_motif is called with: an id and a sequence
MotifArgs ==
    { [motif_id |-> "m1", sequence |-> <<>>],
      [motif_id |-> "m1", sequence |-> <<"A", "A">>],
      [motif_id |-> "conserved_1", sequence |-> <<"A", "A">>],
      [motif_id |-> "m2", sequence |-> <<"A", "U", "A">>] }

(***************************************************************************)
(* Strings.                                                                *)
(***************************************************************************)
\* str.find(sub, start): the lowest index >= start where sub occurs, or -1
find(s, sub, start) ==
    LET hits == {i \in start..(Len(s) - Len(sub)) :
                    SubSeq(s, i + 1, i + Len(sub)) = sub}
    IN  IF hits = {} THEN -1 ELSE Min(hits)

\* s[a:b] for 0 <= a <= b <= len(s)
Slice(s, a, b) == SubSeq(s, a + 1, b)

\* sub in s
Contains(s, sub) == find(s, sub, 0) # -1

RECURSIVE join(_)
\* ''.join(tokens)
join(tokens) ==
    IF tokens = <<>> THEN <<>> ELSE Head(tokens) \o join(Tail(tokens))

\* list(seq): one token per character
list(s) == [i \in 1..Len(s) |-> <<s[i]>>]

(***************************************************************************)
(* MotifBank.                                                              *)
(***************************************************************************)
\* confidence_score is kept in tenths: the default 1.0 is 10
Row(id, seq) ==
    [motif_id |-> id, sequence |-> seq, frequency |-> 0, length |-> Len(seq),
     confidence_score |-> 10]

DefaultMotifs == <<
    Row("seed_2_7",
        <<"N", "N", "N", "N", "N", "N">>),
    Row("seed_2_8",
        <<"N", "N", "N", "N", "N", "N", "N">>),
    Row("seed_2_9",
        <<"N", "N", "N", "N", "N", "N", "N", "N">>),
    Row("conserved_1",
        <<"U", "G", "U", "G", "A">>),
    Row("conserved_2",
        <<"A", "U", "G", "C", "A">>),
    Row("conserved_3",
        <<"U", "G", "U", "G", "A", "U", "A">>),
    Row("conserved_4",
        <<"A", "G", "C", "U", "A", "C">>),
    Row("hsa_1",
        <<"U", "G", "U", "G", "A", "U", "A">>),
    Row("hsa_2",
        <<"A", "G", "C", "U", "A", "C", "A", "U">>),
    Row("hsa_3",
        <<"U", "A", "G", "C", "A", "G", "C">>),
    Row("mmu_1",
        <<"U", "G", "U", "G", "A", "U", "G">>),
    Row("mmu_2",
        <<"A", "G", "C", "U", "A", "C", "A", "G">>),
    Row("mmu_3",
        <<"U", "A", "G", "C", "A", "G", "U">>),
    Row("struct_1",
        <<"U", "G", "U", "G", "A", "U", "A", "C", "G", "U", "G", "A", "U", "A">>),
    Row("struct_2",
        <<"U", "A", "G", "C", "A", "G", "C", "A", "C", "G", "U", "A", "A", "A", "U", "A", "U", "U", "G", "G", "C", "G">>),
    Row("struct_3",
        <<"U", "U", "A", "A", "U", "G", "C", "U", "A", "A", "U", "C", "G", "U", "G", "A", "U", "A", "G", "G", "G", "G", "U">>),
    Row("pattern_1",
        <<"U", "G", "U", "G", "A">>),
    Row("pattern_2",
        <<"A", "G", "C", "U", "A", "C">>),
    Row("pattern_3",
        <<"U", "A", "G", "C", "A", "G", "C">>),
    Row("mir_21",
        <<"U", "G", "U", "G", "A", "U", "A", "C", "G", "U", "G", "A", "U", "A">>),
    Row("mir_16",
        <<"U", "A", "G", "C", "A", "G", "C", "A", "C", "G", "U", "A", "A", "A", "U", "A", "U", "U", "G", "G", "C", "G">>),
    Row("mir_155",
        <<"U", "U", "A", "A", "U", "G", "C", "U", "A", "A", "U", "C", "G", "U", "G", "A", "U", "A", "G", "G", "G", "G", "U">>),
    Row("mir_221",
        <<"A", "G", "C", "U", "A", "C", "A", "U", "U", "G", "U", "C", "U", "G", "C", "U", "G", "G", "G", "U", "U", "U", "C">>),
    Row("mir_222",
        <<"A", "G", "C", "U", "A", "C", "A", "U", "C", "U", "G", "G", "C", "U", "A", "C", "U", "G", "G", "G", "U">>)
>>

(***************************************************************************)
(* MotifSpanManager.                                                       *)
(***************************************************************************)
RECURSIVE SpansFromNonOverlapping(_, _, _)
\* a search that restarts behind the match instead of one past its start
SpansFromNonOverlapping(sequence, motif, start) ==
    LET idx == find(sequence, motif.sequence, start)
    IN  IF idx = -1 THEN <<>>
        ELSE <<[start |-> idx, end |-> idx + Len(motif.sequence),
                motif_id |-> motif.motif_id]>>
             \o SpansFromNonOverlapping(sequence, motif,
                    idx + Max({1, Len(motif.sequence)}))

RECURSIVE SpansFrom(_, _, _)
\* the while loop of get_motif_spans for one row, searching from start
SpansFrom(sequence, motif, start) ==
    LET idx == find(sequence, motif.sequence, start)
    IN  IF idx = -1 THEN <<>>
        ELSE <<[start |-> idx, end |-> idx + Len(motif.sequence),
                motif_id |-> motif.motif_id]>>
             \o SpansFrom(sequence, motif, idx + 1)

RECURSIVE SpansOfRows(_, _)
SpansOfRows(rows, sequence) ==
    IF rows = <<>> THEN <<>>
    ELSE SpansFrom(sequence, Head(rows), 0) \o SpansOfRows(Tail(rows), sequence)

get_motif_spans(sequence) == SpansOfRows(registry, sequence)

is_pair_inside_motif(pair_start, pair_end, motif_spans) ==
    \E k \in 1..Len(motif_spans) :
        /\ pair_start >= motif_spans[k].start
        /\ pair_end <= motif_spans[k].end

\* the crossing test with an edge that touches the pair counted as crossed
CrossingOrTouching(pair_start, pair_end, motif_spans) ==
    \E k \in 1..Len(motif_spans) :
        \/ pair_start < motif_spans[k].end /\ pair_end >= motif_spans[k].end
        \/ pair_start <= motif_spans[k].start /\ pair_end > motif_spans[k].start

is_pair_crossing_motif_boundary(pair_start, pair_end, motif_spans) ==
    \E k \in 1..Len(motif_spans) :
        \/ pair_start < motif_spans[k].end /\ pair_end > motif_spans[k].end
        \/ pair_start < motif_spans[k].start /\ pair_end > motif_spans[k].start

(***************************************************************************)
(* The state after GeneticBPETokenizer(vocab_size, min_freq) is built.     *)
(***************************************************************************)
\* constructor arguments and the weights of the config file, in halves
Configs ==
    { [vocab_size |-> 4, min_freq |-> 2, motif_weight |-> 5, penalty_weight |-> 20],
      [vocab_size |-> 3, min_freq |-> 1, motif_weight |-> 5, penalty_weight |-> 20],
      [vocab_size |-> 2, min_freq |-> 1, motif_weight |-> 5, penalty_weight |-> 20],
      [vocab_size |-> 4, min_freq |-> 1, motif_weight |-> 5, penalty_weight |-> 2] }

NoIter == [ran |-> FALSE]
NoSpanq == [called |-> FALSE]
NoClsq == [called |-> FALSE]
NoTokq == [called |-> FALSE]
NoDocument == [written |-> FALSE]
NoSaveq == [called |-> FALSE]
NoLoadq == [called |-> FALSE]
NoReplayq == [called |-> FALSE]

Init ==
    /\ registry = DefaultMotifs
    /\ \E c \in Configs :
        /\ vocab_size = c.vocab_size
        /\ min_freq = c.min_freq
        /\ motif_weight = c.motif_weight
        /\ penalty_weight = c.penalty_weight
    /\ vocab = {}
    /\ merges = <<>>
    /\ token_frequencies = <<>>
    /\ pc = "idle"
    /\ sequences = <<>>
    /\ corpus = <<>>
    /\ current_vocab = {}
    /\ new_merges = <<>>
    /\ iter = NoIter
    /\ spanq = NoSpanq
    /\ clsq = NoClsq
    /\ tokq = NoTokq
    /\ document = NoDocument
    /\ saveq = NoSaveq
    /\ loadq = NoLoadq
    /\ replayq = NoReplayq

(***************************************************************************)
(* MotifBank.add_motif: the row is appended; nothing is checked.           *)
(***************************************************************************)
add_motif(motif_id, sequence) ==
    /\ Len(registry) < Len(DefaultMotifs) + MaxAdded
    /\ registry' = Append(registry, Row(motif_id, sequence))

AddMotif ==
    /\ pc \in {"idle", "done"}
    /\ ~clsq.called
    /\ \E m \in MotifArgs : add_motif(m.motif_id, m.sequence)
    /\ spanq' = NoSpanq
    /\ tokq' = NoTokq
    /\ UNCHANGED <<tokenizer_vars, train_vars, clsq, persist_vars, replayq>>

(***************************************************************************)
(* The span query and the two predicates, called on their own.             *)
(***************************************************************************)
GetMotifSpans ==
    /\ pc = "idle"
    /\ ~clsq.called
    /\ \E s \in Strings :
        spanq' = [called |-> TRUE, sequence |-> s, spans |-> get_motif_spans(s)]
    /\ clsq' = NoClsq
    /\ tokq' = NoTokq
    /\ UNCHANGED <<registry, tokenizer_vars, train_vars, persist_vars, replayq>>

\* span lists a caller may pass: one or two intervals within 0..MaxSeqLen
SpanArgs ==
    LET one == {[start |-> a, end |-> b, motif_id |-> "m1"] :
                    a \in 0..MaxSeqLen, b \in 0..MaxSeqLen}
        ok == {x \in one : x.start < x.end}
    IN  {<<x>> : x \in ok} \cup {<<x, y>> : x \in ok, y \in ok}

\* the two predicates are pure: they are applied once, to drawn arguments
ClassifyPair ==
    /\ pc = "idle"
    /\ registry = DefaultMotifs
    /\ ~spanq.called /\ ~clsq.called /\ ~tokq.called
    /\ \E a \in 0..MaxSeqLen, b \in 0..MaxSeqLen, sp \in SpanArgs :
        /\ a < b
        /\ clsq' = [called |-> TRUE, pair_start |-> a, pair_end |-> b,
                    motif_spans |-> sp,
                    inside |-> is_pair_inside_motif(a, b, sp),
                    crossing |-> is_pair_crossing_motif_boundary(a, b, sp)]
    /\ UNCHANGED <<registry, tokenizer_vars, train_vars, spanq, tokq,
                   persist_vars, replayq>>

NextSpans == AddMotif \/ GetMotifSpans \/ ClassifyPair

SpecSpans == Init /\ [][NextSpans]_vars

(***************************************************************************)
(* GeneticBPETokenizer._get_pairs_with_scores.                             *)
(***************************************************************************)
RECURSIVE PairOccurrences(_)
\* the statistics pass: every position of every sequence, in order, with the
\* pair of characters there and what the two predicates say of (i, i + 2)
PairOccurrences(seqs) ==
    IF seqs = <<>> THEN <<>>
    ELSE LET seq == Head(seqs)
             tokens == list(seq)
             motif_spans == get_motif_spans(seq)
         IN  [k \in 1..(IF Len(tokens) = 0 THEN 0 ELSE Len(tokens) - 1) |->
                 [pair |-> tokens[k] \o tokens[k + 1],
                  inside |-> is_pair_inside_motif(k - 1, k + 1, motif_spans),
                  crossing |->
                      is_pair_crossing_motif_boundary(k - 1, k + 1, motif_spans)]]
             \o PairOccurrences(Tail(seqs))

RECURSIVE FirstSeen(_, _)
\* the keys of pair_stats in insertion order
FirstSeen(occs, seen) ==
    IF occs = <<>> THEN <<>>
    ELSE IF Head(occs).pair \in seen THEN FirstSeen(Tail(occs), seen)
         ELSE <<Head(occs).pair>>
              \o FirstSeen(Tail(occs), seen \cup {Head(occs).pair})

\* pair_stats[pair][stat]: the occurrences of pair counted under stat
Count(occs, pair, stat) ==
    Cardinality({k \in 1..Len(occs) :
        /\ occs[k].pair = pair
        /\ stat = "inside" => occs[k].inside
        /\ stat = "crossing" => occs[k].crossing})

\* twice freq + motif_weight * bonus - penalty_weight * penalty
Score(occs, pair) ==
    LET freq == Count(occs, pair, "freq")
        bonus == Count(occs, pair, "inside")
        penalty == Count(occs, pair, "crossing")
    IN  2 * freq + motif_weight * bonus - penalty_weight * penalty

\* the dict of scores, as the list of its items in insertion order
_get_pairs_with_scores(seqs) ==
    LET occs == PairOccurrences(seqs)
        keys == FirstSeen(occs, {})
    IN  [k \in 1..Len(keys) |-> [pair |-> keys[k], score |-> Score(occs, keys[k])]]

\* the last item of the largest score
MaxItemLast(items) ==
    LET its == items
        top == Max({its[k].score : k \in 1..Len(its)})
    IN  its[Max({k \in 1..Len(its) : its[k].score = top})]

\* max(items, key = score)[0]: the first item of the largest score
MaxItem(items) ==
    LET its == items
        top == Max({its[k].score : k \in 1..Len(its)})
    IN  its[Min({k \in 1..Len(its) : its[k].score = top})]

(***************************************************************************)
(* GeneticBPETokenizer.train.                                              *)
(***************************************************************************)
RECURSIVE CountChar(_, _)
CountChar(seqs, c) ==
    IF seqs = <<>> THEN 0
    ELSE Cardinality({i \in 1..Len(Head(seqs)) : Head(seqs)[i] = c})
         + CountChar(Tail(seqs), c)

CharsOf(seqs) == UNION {{seqs[k][i] : i \in 1..Len(seqs[k])} : k \in 1..Len(seqs)}

\* token_frequencies[token] += 1 for every character of every sequence
CountTokens(freqs, seqs) ==
    [c \in DOMAIN freqs \cup CharsOf(seqs) |->
        (IF c \in DOMAIN freqs THEN freqs[c] ELSE 0) + CountChar(seqs, c)]

\* a first vocabulary seeded with the wildcard whatever the corpus holds
InitialVocabSeeded(freqs) ==
    {<<c>> : c \in {d \in DOMAIN freqs : freqs[d] >= min_freq}} \cup {<<"N">>}

\* line 171: the characters seen at least min_freq times
InitialVocab(freqs) ==
    {<<c>> : c \in {d \in DOMAIN freqs : freqs[d] >= min_freq}}

RECURSIVE MergeFrom(_, _, _, _)
\* the inner while loop of train over one sequence of symbols, from index i
MergeFrom(seq, i, best_pair, motif_spans) ==
    IF i >= Len(seq) THEN <<>>
    ELSE IF i < Len(seq) - 1 /\ seq[i + 1] \o seq[i + 2] = best_pair
         THEN IF is_pair_crossing_motif_boundary(i, i + 2, motif_spans)
              THEN <<seq[i + 1]>> \o MergeFrom(seq, i + 1, best_pair, motif_spans)
              ELSE <<best_pair>> \o MergeFrom(seq, i + 2, best_pair, motif_spans)
         ELSE <<seq[i + 1]>> \o MergeFrom(seq, i + 1, best_pair, motif_spans)

\* new_corpus: every sequence rewritten against its own spans
MergeCorpus(corp, best_pair) ==
    [k \in 1..Len(corp) |->
        MergeFrom(corp[k], 0, best_pair, get_motif_spans(join(corp[k])))]

\* merges[pair] = rank on a dict kept as the list of its items
SetItem(items, pair, rank) ==
    IF \E k \in 1..Len(items) : items[k].pair = pair
    THEN [k \in 1..Len(items) |->
            IF items[k].pair = pair THEN [pair |-> pair, rank |-> rank]
            ELSE items[k]]
    ELSE Append(items, [pair |-> pair, rank |-> rank])

\* what train may be called with: no sequence, one, or two of at most
\* MaxSeqLen characters together
Corpora ==
    LET nonempty == Strings \ {<<>>}
        two == {p \in nonempty \X nonempty : Len(p[1]) + Len(p[2]) <= MaxSeqLen}
    IN  {<<>>} \cup {<<s>> : s \in SeqPool} \cup {<<p[1], p[2]>> : p \in two}

\* lines 166-175: the counts, the first vocabulary and the corpus of symbols
TrainStart ==
    /\ pc = "idle"
    /\ ~clsq.called
    /\ \E seqs \in Corpora :
        /\ sequences' = seqs
        /\ token_frequencies' = CountTokens(token_frequencies, seqs)
        /\ vocab' = InitialVocab(token_frequencies')
        /\ corpus' = [k \in 1..Len(seqs) |-> list(seqs[k])]
    /\ new_merges' = <<>>
    /\ current_vocab' = vocab'
    /\ pc' = "loop"
    /\ iter' = NoIter
    /\ spanq' = NoSpanq
    /\ tokq' = NoTokq
    /\ loadq' = NoLoadq
    /\ UNCHANGED <<registry, vocab_size, min_freq, motif_weight, penalty_weight,
                   merges, clsq, document, saveq, replayq>>

\* the scores the loop computes from the corpus joined back into strings
pair_scores == _get_pairs_with_scores([k \in 1..Len(corpus) |-> join(corpus[k])])

\* why the loop ends here, or "none"
StopReason ==
    IF ~(Cardinality(current_vocab) < vocab_size) THEN "vocab_size"
    ELSE LET scores == pair_scores
         IN  IF scores = <<>> THEN "no_pairs"
             ELSE IF MaxItem(scores).score <= 0 THEN "no_positive_score"
             ELSE "none"

\* the loop condition is false, or one of the two breaks is taken
TrainStop ==
    /\ pc = "loop"
    /\ StopReason # "none"
    /\ pc' = "exit"
    /\ UNCHANGED <<registry, tokenizer_vars, sequences, corpus, current_vocab,
                   new_merges, iter, spanq, clsq, tokq, persist_vars,
                   replayq>>

\* one pass of the loop body, lines 177-205; iter keeps what the pass found
\* and what it chose
TrainIterate ==
    /\ pc = "loop"
    /\ StopReason = "none"
    /\ LET best == MaxItem(pair_scores)
       IN  /\ corpus' = MergeCorpus(corpus, best.pair)
           /\ new_merges' = SetItem(new_merges, best.pair, Len(new_merges))
           /\ current_vocab' = current_vocab \cup {best.pair}
           /\ iter' = [ran |-> TRUE, best_pair |-> best.pair, score |-> best.score,
                       before |-> corpus, vocab_before |-> current_vocab,
                       merges_before |-> new_merges]
    /\ UNCHANGED <<registry, tokenizer_vars, pc, sequences, spanq, clsq, tokq,
                   persist_vars, replayq>>

\* a train that counts every motif once more as it returns
TrainFinishCounting ==
    /\ pc = "exit"
    /\ merges' = new_merges
    /\ vocab' = current_vocab
    /\ pc' = "done"
    /\ registry' = [k \in 1..Len(registry) |->
                        [registry[k] EXCEPT !.frequency = @ + 1]]
    /\ UNCHANGED <<vocab_size, min_freq, motif_weight, penalty_weight,
                   token_frequencies, sequences, corpus, current_vocab,
                   new_merges, iter, spanq, clsq, tokq, persist_vars,
                   replayq>>

\* lines 206-207
TrainFinish ==
    /\ pc = "exit"
    /\ merges' = new_merges
    /\ vocab' = current_vocab
    /\ pc' = "done"
    /\ UNCHANGED <<registry, vocab_size, min_freq, motif_weight, penalty_weight,
                   token_frequencies, sequences, corpus, current_vocab,
                   new_merges, iter, spanq, clsq, tokq, persist_vars,
                   replayq>>

NextTrain == AddMotif \/ TrainStart \/ TrainStop \/ TrainIterate \/ TrainFinish

SpecTrain == Init /\ [][NextTrain]_vars

(***************************************************************************)
(* GeneticBPETokenizer.tokenize.                                           *)
(***************************************************************************)
\* the dict of pair counts, as the list of its items in insertion order
_get_pairs(tokens) ==
    LET occs == [k \in 1..(IF Len(tokens) = 0 THEN 0 ELSE Len(tokens) - 1) |->
                    [pair |-> tokens[k] \o tokens[k + 1]]]
        keys == FirstSeen(occs, {})
    IN  [k \in 1..Len(keys) |->
            [pair |-> keys[k],
             score |-> Count(occs, keys[k], "freq")]]

\* an inner loop that copies the tokens and merges nothing
ReplaceFromNowhere(tokens, i, best_pair) == SubSeq(tokens, i + 1, Len(tokens))

RECURSIVE ReplaceFrom(_, _, _)
\* the inner while loop of _tokenize_subsequence, from index i
ReplaceFrom(tokens, i, best_pair) ==
    IF i >= Len(tokens) THEN <<>>
    ELSE IF i < Len(tokens) - 1 /\ tokens[i + 1] \o tokens[i + 2] = best_pair
         THEN <<best_pair>> \o ReplaceFrom(tokens, i + 2, best_pair)
         ELSE <<tokens[i + 1]>> \o ReplaceFrom(tokens, i + 1, best_pair)

MergeKeys == {merges[k].pair : k \in 1..Len(merges)}

RECURSIVE ReplayLoop(_)
\* the outer while loop of _tokenize_subsequence
ReplayLoop(tokens) ==
    IF ~(Len(tokens) > 1) THEN tokens
    ELSE LET pairs == _get_pairs(tokens)
         IN  IF pairs = <<>> THEN tokens
             ELSE LET best_pair == MaxItem(pairs).pair
                  IN  IF best_pair \notin MergeKeys THEN tokens
                      ELSE ReplayLoop(ReplaceFrom(tokens, 0, best_pair))

_tokenize_subsequence(subsequence) == ReplayLoop(list(subsequence))

\* the outer while loop taken pass by pass: whether it is left before a pass,
\* and the tokens a pass makes
ReplayStops(tokens) ==
    IF ~(Len(tokens) > 1) THEN TRUE
    ELSE LET pairs == _get_pairs(tokens)
         IN  IF pairs = <<>> THEN TRUE
             ELSE MaxItem(pairs).pair \notin MergeKeys

ReplayPassOf(tokens) == ReplaceFrom(tokens, 0, MaxItem(_get_pairs(tokens)).pair)

\* merge tables a tokenizer may hold when _tokenize_subsequence is called
MergeTables ==
    { <<>>,
      <<[pair |-> <<"A", "A">>, rank |-> 0]>>,
      <<[pair |-> <<"A", "A">>, rank |-> 0],
        [pair |-> <<"A", "A", "A">>, rank |-> 1]>>,
      <<[pair |-> <<"A", "A">>, rank |-> 0],
        [pair |-> <<"A", "A", "A", "A">>, rank |-> 1]>>,
      <<[pair |-> <<"A", "U">>, rank |-> 0],
        [pair |-> <<"U", "A">>, rank |-> 1],
        [pair |-> <<"A", "U", "A">>, rank |-> 2],
        [pair |-> <<"A", "U", "A", "U">>, rank |-> 3]>> }

\* a constructed tokenizer whose merges are one of the tables
InitReplay ==
    /\ registry = DefaultMotifs
    /\ \E c \in Configs :
        /\ vocab_size = c.vocab_size
        /\ min_freq = c.min_freq
        /\ motif_weight = c.motif_weight
        /\ penalty_weight = c.penalty_weight
    /\ vocab = {}
    /\ merges \in MergeTables
    /\ token_frequencies = <<>>
    /\ pc = "idle"
    /\ sequences = <<>>
    /\ corpus = <<>>
    /\ current_vocab = {}
    /\ new_merges = <<>>
    /\ iter = NoIter
    /\ spanq = NoSpanq
    /\ clsq = NoClsq
    /\ tokq = NoTokq
    /\ document = NoDocument
    /\ saveq = NoSaveq
    /\ loadq = NoLoadq
    /\ replayq = NoReplayq

\* line 97: tokens = list(subsequence)
ReplayStart ==
    /\ ~replayq.called
    /\ \E subsequence \in Strings :
        replayq' = [called |-> TRUE, running |-> TRUE,
                    subsequence |-> subsequence, tokens |-> list(subsequence),
                    passes |-> 0, before |-> list(subsequence)]
    /\ UNCHANGED <<registry, tokenizer_vars, train_vars, spanq, clsq, tokq,
                   persist_vars>>

\* lines 100-120: one pass of the while loop
ReplayPass ==
    /\ replayq.called /\ replayq.running
    /\ ~ReplayStops(replayq.tokens)
    /\ replayq' = [replayq EXCEPT !.tokens = ReplayPassOf(replayq.tokens),
                                  !.passes = @ + 1,
                                  !.before = replayq.tokens]
    /\ UNCHANGED <<registry, tokenizer_vars, train_vars, spanq, clsq, tokq,
                   persist_vars>>

\* the loop condition is false or a break is taken: line 122 returns tokens
ReplayReturn ==
    /\ replayq.called /\ replayq.running
    /\ ReplayStops(replayq.tokens)
    /\ replayq' = [replayq EXCEPT !.running = FALSE]
    /\ UNCHANGED <<registry, tokenizer_vars, train_vars, spanq, clsq, tokq,
                   persist_vars>>

NextReplay == ReplayStart \/ ReplayPass \/ ReplayReturn

SpecReplay == InitReplay /\ [][NextReplay]_vars

\* the rows find_motifs_in_sequence returns, by index
FoundRows(sequence) ==
    {k \in 1..Len(registry) : Contains(sequence, registry[k].sequence)}

\* the frequency column after find_motifs_in_sequence: every found row adds
\* one to each row of its motif_id
find_motifs_in_sequence(sequence) ==
    LET found == FoundRows(sequence)
    IN  [r \in 1..Len(registry) |->
            [registry[r] EXCEPT !.frequency =
                @ + Cardinality({k \in found :
                                    registry[k].motif_id = registry[r].motif_id})]]

RECURSIVE MotifPositions(_, _)
\* (start_pos, motif sequence) of the found rows from row k on, in row order
MotifPositions(sequence, k) ==
    IF k > Len(registry) THEN <<>>
    ELSE LET start_pos == find(sequence, registry[k].sequence, 0)
         IN  (IF Contains(sequence, registry[k].sequence) /\ start_pos # -1
              THEN <<[pos |-> start_pos, motif |-> registry[k].sequence]>>
              ELSE <<>>)
             \o MotifPositions(sequence, k + 1)

RECURSIVE SortByPos(_)
\* list.sort(key = position): stable
SortByPos(items) ==
    IF items = <<>> THEN <<>>
    ELSE LET low == Min({items[k].pos : k \in 1..Len(items)})
             first == Min({k \in 1..Len(items) : items[k].pos = low})
         IN  <<items[first]>>
             \o SortByPos([k \in 1..(Len(items) - 1) |->
                              IF k < first THEN items[k] ELSE items[k + 1]])

RECURSIVE Placed(_, _)
\* tokens with the interval of the text each was cut from, from offset on
Placed(tokens, offset) ==
    IF tokens = <<>> THEN <<>>
    ELSE <<[text |-> Head(tokens), start |-> offset,
            end |-> offset + Len(Head(tokens)), motif |-> FALSE]>>
         \o Placed(Tail(tokens), offset + Len(Head(tokens)))

RECURSIVE Emit(_, _, _)
\* the loop over motif_positions and the trailing characters
Emit(sequence, positions, current_pos) ==
    IF positions = <<>>
    THEN IF current_pos < Len(sequence)
         THEN Placed(_tokenize_subsequence(
                         Slice(sequence, current_pos, Len(sequence))),
                     current_pos)
         ELSE <<>>
    ELSE LET pos == Head(positions).pos
             motif == Head(positions).motif
         IN  (IF pos > current_pos
              THEN Placed(_tokenize_subsequence(Slice(sequence, current_pos, pos)),
                          current_pos)
              ELSE <<>>)
             \o <<[text |-> motif, start |-> pos, end |-> pos + Len(motif),
                   motif |-> TRUE]>>
             \o Emit(sequence, Tail(positions), pos + Len(motif))

\* the tokens of tokenize, each with where it came from
TokenizePieces(sequence) ==
    Emit(sequence, SortByPos(MotifPositions(sequence, 1)), 0)

tokenize(sequence) ==
    LET pieces == TokenizePieces(sequence)
    IN  [k \in 1..Len(pieces) |-> pieces[k].text]

\* one call of tokenize on a trained tokenizer
Tokenize ==
    /\ pc = "done"
    /\ ~tokq.called
    /\ \E s \in SeqPool :
        /\ registry' = find_motifs_in_sequence(s)
        /\ LET pieces == TokenizePieces(s)
           IN  tokq' = [called |-> TRUE, sequence |-> s, pieces |-> pieces,
                        tokens |-> [k \in 1..Len(pieces) |-> pieces[k].text]]
    /\ spanq' = NoSpanq
    /\ UNCHANGED <<tokenizer_vars, train_vars, clsq, persist_vars, replayq>>

Next ==
    \/ AddMotif
    \/ GetMotifSpans
    \/ ClassifyPair
    \/ TrainStart
    \/ TrainStop
    \/ TrainIterate
    \/ TrainFinish
    \/ Tokenize

Spec == Init /\ [][Next]_vars

(***************************************************************************)
(* GeneticBPETokenizer.save and load. The file holds a JSON object: vocab  *)
(* as a list in the set's iteration order, merges as an object whose       *)
(* members keep the dict's insertion order, token_frequencies as an object *)
(* of members. A file that lacks a member is kept with its key left out of *)
(* keys.                                                                   *)
(***************************************************************************)
StateKeys == <<"vocab_size", "min_freq", "vocab", "merges", "token_frequencies">>

\* list(self.vocab): the elements in one of the orders a set may iterate in
ListsOf(S) ==
    {f \in [1..Cardinality(S) -> S] : \A i, j \in DOMAIN f : f[i] = f[j] => i = j}

\* json.dump of a dict with string keys: the members, in insertion order
JsonObject(items) == [k \in 1..Len(items) |-> <<items[k].pair, items[k].rank>>]

\* json.dump of dict(self.token_frequencies): one member for every key
JsonCounts(freqs) == {<<c, freqs[c]>> : c \in DOMAIN freqs}

\* lines 216-222: the state dict, the vocabulary listed in the order given
state_of(vocab_list) ==
    [keys |-> {StateKeys[k] : k \in 1..Len(StateKeys)},
     vocab_size |-> vocab_size,
     min_freq |-> min_freq,
     vocab |-> vocab_list,
     merges |-> JsonObject(merges),
     token_frequencies |-> JsonCounts(token_frequencies)]

\* self.merges = state['merges'] with the ranks renumbered from 1
MergesOfRenumbered(object) ==
    [k \in 1..Len(object) |-> [pair |-> object[k][1], rank |-> k]]

\* self.merges = state['merges']: the parsed object, members in file order
MergesOf(object) ==
    [k \in 1..Len(object) |-> [pair |-> object[k][1], rank |-> object[k][2]]]

\* defaultdict(int, state['token_frequencies'])
CountsOf(object) ==
    [c \in {m[1] : m \in object} |-> (CHOOSE m \in object : m[1] = c)[2]]

\* the number of assignments of load that run before state[key] raises
Assigned(state) ==
    LET missing == {k \in 1..Len(StateKeys) : StateKeys[k] \notin state.keys}
    IN  IF missing = {} THEN Len(StateKeys) ELSE Min(missing) - 1

\* the files load may find: the one save wrote, or it with one member lost
Stored(state) ==
    {state} \cup {[state EXCEPT !.keys = @ \ {StateKeys[k]}] : k \in 1..Len(StateKeys)}

Save ==
    /\ pc \in {"idle", "done"}
    /\ \E vocab_list \in ListsOf(vocab) :
        document' = [written |-> TRUE, state |-> state_of(vocab_list)]
    /\ saveq' = [called |-> TRUE, vocab_size |-> vocab_size, min_freq |-> min_freq,
                 vocab |-> vocab, merges |-> merges,
                 token_frequencies |-> token_frequencies]
    /\ loadq' = NoLoadq
    /\ UNCHANGED <<registry, tokenizer_vars, train_vars, spanq, clsq, tokq, replayq>>

\* lines 234-241: the five assignments in order; the first member that is
\* missing raises KeyError and the assignments before it stay
Load ==
    /\ pc \in {"idle", "done"}
    /\ document.written
    /\ \E state \in Stored(document.state) :
        LET n == Assigned(state)
        IN  /\ vocab_size' = IF n >= 1 THEN state.vocab_size ELSE vocab_size
            /\ min_freq' = IF n >= 2 THEN state.min_freq ELSE min_freq
            /\ vocab' = IF n >= 3 THEN {state.vocab[k] : k \in 1..Len(state.vocab)}
                        ELSE vocab
            /\ merges' = IF n >= 4 THEN MergesOf(state.merges) ELSE merges
            /\ token_frequencies' =
                   IF n >= 5 THEN CountsOf(state.token_frequencies)
                   ELSE token_frequencies
            /\ loadq' = [called |-> TRUE, raised |-> n < Len(StateKeys),
                         state |-> state,
                         before |-> [vocab_size |-> vocab_size,
                                     min_freq |-> min_freq, vocab |-> vocab,
                                     merges |-> merges,
                                     token_frequencies |-> token_frequencies]]
    /\ UNCHANGED <<registry, motif_weight, penalty_weight, train_vars, spanq,
                   clsq, tokq, document, saveq, replayq>>

NextPersist ==
    \/ TrainStart
    \/ TrainStop
    \/ TrainIterate
    \/ TrainFinish
    \/ Save
    \/ Load

SpecPersist == Init /\ [][NextPersist]_vars

(***************************************************************************)
(* MotifBank.merge_motif_banks, load_motifs and update_motif_confidence.   *)
(***************************************************************************)
RECURSIVE KeepFirst(_, _)
KeepFirst(rows, seen) ==
    IF rows = <<>> THEN <<>>
    ELSE IF Head(rows).motif_id \in seen THEN KeepFirst(Tail(rows), seen)
         ELSE <<Head(rows)>> \o KeepFirst(Tail(rows), seen \cup {Head(rows).motif_id})

\* DataFrame.drop_duplicates(subset=['motif_id']): the first row of every id
drop_duplicates(rows) == KeepFirst(rows, {})

\* every row of the id gets the new score
WithConfidence(rows, motif_id, new_confidence) ==
    [k \in 1..Len(rows) |->
        IF rows[k].motif_id = motif_id
        THEN [rows[k] EXCEPT !.confidence_score = new_confidence]
        ELSE rows[k]]

\* the motifs_df of another bank: the default rows, then what was done to it
OtherBanks ==
    {DefaultMotifs, WithConfidence(DefaultMotifs, "conserved_1", 5)}
    \cup {Append(DefaultMotifs, Row(m.motif_id, m.sequence)) : m \in MotifArgs}

\* pd.read_csv of a file save_motifs wrote: an empty field is read as NaN,
\* which astype('str') turns into the text nan
read_csv(rows) ==
    [k \in 1..Len(rows) |->
        IF rows[k].sequence = <<>>
        THEN [rows[k] EXCEPT !.sequence = <<"n", "a", "n">>]
        ELSE rows[k]]

MergeMotifBanks ==
    /\ pc \in {"idle", "done"}
    /\ ~clsq.called
    /\ \E other_bank \in OtherBanks :
        registry' = drop_duplicates(registry \o other_bank)
    /\ spanq' = NoSpanq
    /\ tokq' = NoTokq
    /\ UNCHANGED <<tokenizer_vars, train_vars, clsq, persist_vars, replayq>>

LoadMotifs ==
    /\ pc \in {"idle", "done"}
    /\ ~clsq.called
    /\ \E file \in OtherBanks :
        registry' = drop_duplicates(registry \o read_csv(file))
    /\ spanq' = NoSpanq
    /\ tokq' = NoTokq
    /\ UNCHANGED <<tokenizer_vars, train_vars, clsq, persist_vars, replayq>>

UpdateMotifConfidence ==
    /\ pc \in {"idle", "done"}
    /\ ~clsq.called
    /\ \E motif_id \in {"conserved_1", "m1"} :
        registry' = WithConfidence(registry, motif_id, 5)
    /\ spanq' = NoSpanq
    /\ tokq' = NoTokq
    /\ UNCHANGED <<tokenizer_vars, train_vars, clsq, persist_vars, replayq>>

NextBank == AddMotif \/ MergeMotifBanks \/ LoadMotifs \/ UpdateMotifConfidence

SpecBank == Init /\ [][NextBank]_vars

(***************************************************************************)
(* Properties of the span query and the two predicates.                    *)
(***************************************************************************)
\* the start positions at which the row's sequence occurs in s
Occurrences(s, motif) ==
    {i \in 0..(Len(s) - Len(motif.sequence)) :
        Slice(s, i, i + Len(motif.sequence)) = motif.sequence}

\* C6: every span the query returns satisfies 0 <= start < end <= len(S) and
\* S[start:end] is the sequence of a motif of the registry with that motif_id.
C6_SpansWellFormed ==
    spanq.called =>
        \A j \in 1..Len(spanq.spans) :
            LET sp == spanq.spans[j]
            IN  /\ 0 <= sp.start /\ sp.start < sp.end
                /\ sp.end <= Len(spanq.sequence)
                /\ \E k \in 1..Len(registry) :
                    /\ registry[k].motif_id = sp.motif_id
                    /\ registry[k].sequence =
                           Slice(spanq.sequence, sp.start, sp.end)

\* C7: the span query is complete: for every row m of the registry and every
\* index i at which m.sequence occurs in S, overlapping occurrences included,
\* the span (i, i + len(m.sequence), m.motif_id) is returned, once for each
\* row that holds this motif_id with this sequence (exactly once when no other
\* row does); no row is left out for its length.
C7_SpansComplete ==
    spanq.called =>
        \A k \in 1..Len(registry) :
            \A i \in Occurrences(spanq.sequence, registry[k]) :
                LET m == registry[k]
                    sp == [start |-> i, end |-> i + Len(m.sequence),
                           motif_id |-> m.motif_id]
                IN  Cardinality({j \in 1..Len(spanq.spans) : spanq.spans[j] = sp})
                    = Cardinality({r \in 1..Len(registry) :
                          /\ registry[r].motif_id = m.motif_id
                          /\ registry[r].sequence = m.sequence})

\* motif "AA" queried in "AAA": the overlapping spans (0,2) and (1,3)
C7_Witness ==
    /\ spanq.called
    /\ spanq.sequence = <<"A", "A", "A">>
    /\ \E j1, j2 \in 1..Len(spanq.spans) :
        /\ spanq.spans[j1] = [start |-> 0, end |-> 2, motif_id |-> "m1"]
        /\ spanq.spans[j2] = [start |-> 1, end |-> 3, motif_id |-> "m1"]

\* C8: against a list of one span (s, e) with s < e, a pair interval with
\* pair_start < pair_end is never both contained and boundary-crossing.
C8_SingleSpanExclusive ==
    (/\ clsq.called
     /\ Len(clsq.motif_spans) = 1
     /\ clsq.motif_spans[1].start < clsq.motif_spans[1].end
     /\ clsq.pair_start < clsq.pair_end)
        => ~(clsq.inside /\ clsq.crossing)

\* a pair contained in the single span it was classified against
C8_Witness ==
    /\ clsq.called
    /\ Len(clsq.motif_spans) = 1
    /\ clsq.inside
    /\ ~clsq.crossing

\* the second half of C8: against two spans both predicates can be true
C8_BothOverTwoSpans ==
    /\ clsq.called
    /\ Len(clsq.motif_spans) = 2
    /\ clsq.inside
    /\ clsq.crossing

(***************************************************************************)
(* Properties of train and tokenize.                                       *)
(***************************************************************************)
\* a span edge lies strictly inside the interval [a, b)
Straddles(a, b, motif_spans) ==
    \E k \in 1..Len(motif_spans) :
        \/ a < motif_spans[k].start /\ motif_spans[k].start < b
        \/ a < motif_spans[k].end /\ motif_spans[k].end < b

\* C1: no token that tokenize builds by replaying merges covers an interval
\* [a, b) of the sequence with an edge of one of its motif spans strictly
\* inside.
C1_NoReplayedTokenStraddles ==
    tokq.called =>
        \A k \in 1..Len(tokq.pieces) :
            ~tokq.pieces[k].motif =>
                ~Straddles(tokq.pieces[k].start, tokq.pieces[k].end,
                           get_motif_spans(tokq.sequence))

\* C2: while train runs, no symbol of a corpus sequence covers an interval
\* [a, b) of that sequence with an edge of one of its motif spans strictly
\* inside.
C2_NoSymbolStraddles ==
    pc \in {"loop", "exit"} =>
        \A k \in 1..Len(corpus) :
            LET symbols == Placed(corpus[k], 0)
            IN  \A j \in 1..Len(symbols) :
                    ~Straddles(symbols[j].start, symbols[j].end,
                               get_motif_spans(sequences[k]))

\* C3: train always terminates. A pass of the loop is a function of corpus,
\* current_vocab and merges alone (the registry and the weights do not change
\* while train runs), so the loop reaches one of its three exits only if no
\* pass leaves these three as it found them: every pass changes one of them.
C3_EveryPassProgresses ==
    (pc \in {"loop", "exit"} /\ iter.ran) =>
        <<corpus, current_vocab, new_merges>>
            # <<iter.before, iter.vocab_before, iter.merges_before>>

\* C4: tokenization is lossless: the tokens of tokenize, joined in order, are
\* the input sequence.
C4_Lossless == tokq.called => join(tokq.tokens) = tokq.sequence

\* C5: tokenize(join(tokenize(S))) equals tokenize(S), the merge table and the
\* registry's motifs being the same.
C5_Idempotent == tokq.called => tokenize(join(tokq.tokens)) = tokq.tokens

\* C9: train([]) on a freshly constructed tokenizer returns, and leaves vocab
\* empty and merges empty.
C9_EmptyCorpus ==
    (pc = "done" /\ sequences = <<>>) => (vocab = {} /\ merges = <<>>)

\* train([]) has returned
C9_Witness == pc = "done" /\ sequences = <<>> /\ vocab = {}

\* plain frequency-based BPE on a corpus of symbols: the pair counts over
\* adjacent symbols, in first-encountered order
RECURSIVE PlainOccurrences(_)
PlainOccurrences(corp) ==
    IF corp = <<>> THEN <<>>
    ELSE LET tokens == Head(corp)
         IN  [k \in 1..(IF Len(tokens) = 0 THEN 0 ELSE Len(tokens) - 1) |->
                 [pair |-> tokens[k] \o tokens[k + 1]]]
             \o PlainOccurrences(Tail(corp))

PlainCounts(corp) ==
    LET occs == PlainOccurrences(corp)
        keys == FirstSeen(occs, {})
    IN  [k \in 1..Len(keys) |->
            [pair |-> keys[k], score |-> Count(occs, keys[k], "freq")]]

NoMotifOccurs(seqs) == \A k \in 1..Len(seqs) : get_motif_spans(seqs[k]) = <<>>

\* C10: when no motif of the registry occurs in any corpus sequence, every pass
\* of the loop selects the pair plain frequency-based BPE selects on the
\* corpus of symbols it found (the most frequent adjacent pair, the first
\* encountered on ties), its score is its frequency, and the pair is merged at
\* every occurrence.
C10_PlainBPE ==
    (pc \in {"loop", "exit"} /\ iter.ran /\ NoMotifOccurs(sequences)) =>
        /\ PlainCounts(iter.before) # <<>>
        /\ LET plain == MaxItem(PlainCounts(iter.before))
           IN  /\ iter.best_pair = plain.pair
               /\ iter.score = 2 * plain.score
               /\ corpus = [k \in 1..Len(iter.before) |->
                               ReplaceFrom(iter.before[k], 0, plain.pair)]

(***************************************************************************)
(* Properties of save and load.                                            *)
(***************************************************************************)
\* the five saved fields of the tokenizer, as save and load name them
SavedFields ==
    [vocab_size |-> vocab_size, min_freq |-> min_freq, vocab |-> vocab,
     merges |-> merges, token_frequencies |-> token_frequencies]

\* C11: loading the file save wrote gives the vocabulary set, the merges with
\* their ranks in their order, vocab_size, min_freq and the token frequency
\* counts of the state that was saved.
C11_SaveLoadRoundTrip ==
    (loadq.called /\ loadq.state = document.state) =>
        /\ ~loadq.raised
        /\ SavedFields = [vocab_size |-> saveq.vocab_size,
                          min_freq |-> saveq.min_freq, vocab |-> saveq.vocab,
                          merges |-> saveq.merges,
                          token_frequencies |-> saveq.token_frequencies]

\* a file saved after training, holding a merge, has been loaded
C11_Witness ==
    /\ loadq.called /\ loadq.state = document.state
    /\ merges # <<>>
    /\ Cardinality(vocab) >= 2
    /\ token_frequencies # <<>>

\* C12: when load raises on a malformed file, vocab_size, min_freq, vocab,
\* merges and token_frequencies are what they were before the call.
C12_LoadAllOrNothing ==
    (loadq.called /\ loadq.raised) => SavedFields = loadq.before

(***************************************************************************)
(* Properties of the registry.                                             *)
(***************************************************************************)
\* C13: whatever add_motif, merge_motif_banks and load_motifs calls were made
\* on a bootstrapped registry, no two of its motifs have the same motif_id.
C13_MotifIdUnique ==
    \A i, j \in 1..Len(registry) :
        registry[i].motif_id = registry[j].motif_id => i = j

(***************************************************************************)
(* Properties of train's result and of its loop.                           *)
(***************************************************************************)
\* C14: after train returns, the vocabulary has at most vocab_size elements.
C14_VocabWithinSize == pc = "done" => Cardinality(vocab) <= vocab_size

\* C15: no step of train, from its call to its return, changes the registry:
\* the motifs, their frequency and their confidence values stay as they were.
C15_RegistryReadOnly ==
    [][(pc \in {"loop", "exit"} \/ pc' = "loop") => registry' = registry]_vars

\* train has returned with a merge learnt from a sequence that holds a motif
C15_Witness ==
    /\ pc = "done"
    /\ merges # <<>>
    /\ \E k \in 1..Len(sequences) : get_motif_spans(sequences[k]) # <<>>

\* C16: while train runs, the ranks in merges are 0..|merges|-1 in the order
\* the merges were accepted, and a pass changes no rank assigned before it.
C16_RanksInDiscoveryOrder ==
    pc \in {"loop", "exit"} =>
        /\ \A k \in 1..Len(new_merges) : new_merges[k].rank = k - 1
        /\ iter.ran =>
               \A k \in 1..Len(iter.merges_before) :
                   new_merges[k] = iter.merges_before[k]

\* the statistics pass over a corpus of symbols: every pair of adjacent
\* symbols, with what the two predicates say of the characters it occupies
RECURSIVE SymbolOccurrences(_)
SymbolOccurrences(corp) ==
    IF corp = <<>> THEN <<>>
    ELSE LET symbols == Placed(Head(corp), 0)
             motif_spans == get_motif_spans(join(Head(corp)))
         IN  [k \in 1..(IF Len(symbols) = 0 THEN 0 ELSE Len(symbols) - 1) |->
                 [pair |-> symbols[k].text \o symbols[k + 1].text,
                  inside |-> is_pair_inside_motif(
                      symbols[k].start, symbols[k + 1].end, motif_spans),
                  crossing |-> is_pair_crossing_motif_boundary(
                      symbols[k].start, symbols[k + 1].end, motif_spans)]]
             \o SymbolOccurrences(Tail(corp))

SymbolScores(corp) ==
    LET occs == SymbolOccurrences(corp)
        keys == FirstSeen(occs, {})
    IN  [k \in 1..Len(keys) |-> [pair |-> keys[k], score |-> Score(occs, keys[k])]]

\* C17: the statistics of every pass are those of the current corpus of
\* symbols: the pairs are the pairs of adjacent symbols, and the score of a
\* pair is freq + motif_weight * bonus - penalty_weight * penalty over its
\* occurrences there.
C17_StatisticsOverSymbols == pc = "loop" => pair_scores = SymbolScores(corpus)

\* the occurrences the statistics pass of the last pass of the loop met
LastPassOccurrences ==
    PairOccurrences([k \in 1..Len(iter.before) |-> join(iter.before[k])])

FirstMet(occs, pair) == Min({k \in 1..Len(occs) : occs[k].pair = pair})

\* C18: the pair a pass selects has the largest score, and every other pair of
\* that score was first met later in the statistics pass.
C18_FirstOfMaximumScore ==
    (pc \in {"loop", "exit"} /\ iter.ran) =>
        LET occs == LastPassOccurrences
        IN  /\ \E k \in 1..Len(occs) : occs[k].pair = iter.best_pair
            /\ iter.score = Score(occs, iter.best_pair)
            /\ \A k \in 1..Len(occs) :
                /\ Score(occs, occs[k].pair) <= iter.score
                /\ (occs[k].pair # iter.best_pair
                        /\ Score(occs, occs[k].pair) = iter.score)
                    => FirstMet(occs, iter.best_pair) < FirstMet(occs, occs[k].pair)

\* a pass has selected among two pairs of the same largest score
C18_Witness ==
    /\ pc \in {"loop", "exit"} /\ iter.ran
    /\ \E k \in 1..Len(LastPassOccurrences) :
        /\ LastPassOccurrences[k].pair # iter.best_pair
        /\ Score(LastPassOccurrences, LastPassOccurrences[k].pair) = iter.score

\* the winning pair applied to one sequence of symbols, from index i at
\* character offset: merged unless the characters the two symbols occupy
\* cross a boundary of the spans
RECURSIVE ApplyByInterval(_, _, _, _, _)
ApplyByInterval(seq, i, offset, best_pair, motif_spans) ==
    IF i >= Len(seq) THEN <<>>
    ELSE IF /\ i < Len(seq) - 1
            /\ seq[i + 1] \o seq[i + 2] = best_pair
            /\ ~is_pair_crossing_motif_boundary(
                   offset, offset + Len(best_pair), motif_spans)
         THEN <<best_pair>>
              \o ApplyByInterval(seq, i + 2, offset + Len(best_pair), best_pair,
                                 motif_spans)
         ELSE <<seq[i + 1]>>
              \o ApplyByInterval(seq, i + 1, offset + Len(seq[i + 1]), best_pair,
                                 motif_spans)

\* C19: a pass rewrites every corpus sequence by merging, left to right, the
\* occurrences of the winning pair whose character interval crosses no
\* boundary of the sequence's motif spans, leaving the others unmerged and
\* advancing by one symbol; the joined text of the sequence does not change.
C19_MergedUnlessCrossing ==
    (pc \in {"loop", "exit"} /\ iter.ran) =>
        \A k \in 1..Len(corpus) :
            /\ corpus[k] = ApplyByInterval(iter.before[k], 0, 0, iter.best_pair,
                                           get_motif_spans(sequences[k]))
            /\ join(corpus[k]) = sequences[k]

(***************************************************************************)
(* Properties of the replay in tokenize.                                   *)
(***************************************************************************)
\* the merges of the table that are a pair of adjacent tokens
PresentMerges(tokens) ==
    {k \in 1..Len(merges) :
        \E i \in 1..(Len(tokens) - 1) : tokens[i] \o tokens[i + 1] = merges[k].pair}

\* replay in rank order: the present merge of lowest rank is applied, until
\* none is present
RECURSIVE RankReplay(_)
RankReplay(tokens) ==
    IF PresentMerges(tokens) = {} THEN tokens
    ELSE LET k == CHOOSE x \in PresentMerges(tokens) :
                      \A y \in PresentMerges(tokens) : merges[x].rank <= merges[y].rank
         IN  RankReplay(ReplaceFrom(tokens, 0, merges[k].pair))

\* C20: a gap is segmented by replaying the merges in rank order from single
\* characters until no pair of adjacent tokens is in the merge table: two
\* tokens that follow each other in a gap are never a merge of the table, and
\* a sequence that is one gap gets the tokens of the replay in rank order.
C20_ReplayInRankOrder ==
    tokq.called =>
        /\ \A k \in 1..(Len(tokq.pieces) - 1) :
            (~tokq.pieces[k].motif /\ ~tokq.pieces[k + 1].motif) =>
                tokq.pieces[k].text \o tokq.pieces[k + 1].text \notin MergeKeys
        /\ (\A k \in 1..Len(tokq.pieces) : ~tokq.pieces[k].motif) =>
               tokq.tokens = RankReplay(list(tokq.sequence))

\* C21: tokenize emits the motif tokens in order of start position, each
\* equal to the text it matched, and drops a motif that overlaps one already
\* emitted: the emitted tokens follow each other without sharing a character
\* position of the sequence.
C21_NoPositionCoveredTwice ==
    tokq.called =>
        /\ \A k \in 1..Len(tokq.pieces) :
            tokq.pieces[k].motif =>
                tokq.pieces[k].text
                    = Slice(tokq.sequence, tokq.pieces[k].start, tokq.pieces[k].end)
        /\ \A j, k \in 1..Len(tokq.pieces) :
            j < k => tokq.pieces[j].end <= tokq.pieces[k].start

\* C22: every pass of the replay loop leaves fewer tokens than it found, and
\* the loop makes at most len(subsequence) - 1 passes before it returns.
C22_ReplayShrinks ==
    replayq.called =>
        /\ replayq.passes > 0 => Len(replayq.tokens) < Len(replayq.before)
        /\ replayq.passes <= Max({Len(replayq.subsequence) - 1, 0})

\* the loop taken pass by pass returns what _tokenize_subsequence returns
ReplayAgrees ==
    (replayq.called /\ ~replayq.running) =>
        replayq.tokens = _tokenize_subsequence(replayq.subsequence)

\* a replay has returned after len(subsequence) - 1 passes, two at least
C22_Witness ==
    /\ replayq.called /\ ~replayq.running
    /\ replayq.passes >= 2
    /\ replayq.passes = Len(replayq.subsequence) - 1

====
